---- MODULE Spec2Model ----
(* A model of DisplayResUtil.py: the DisplayResUtil class (set, get,       *)
(* get_modes, get_modes_sorted and the per-platform backends) and the      *)
(* command line entry point, run against a native display subsystem.       *)
EXTENDS Integers, Sequences, FiniteSets, TLC

(* ---------------------------------------------------------------------- *)
(* Bounds                                                                  *)
(* ---------------------------------------------------------------------- *)

\* the widths the display advertises are 1..MaxWidth
MaxWidth == 2
\* the heights the display advertises are 1..MaxHeight
MaxHeight == 2
\* the native enumeration answers at most MaxEnum indices before it ends
MaxEnum == 3

(* ---------------------------------------------------------------------- *)
(* Values                                                                  *)
(* ---------------------------------------------------------------------- *)

\* Python's None where an integer may stand (width=None, height=None)
None == -1
\* depth=32 in the signature of set
DefaultDepth == 32
\* depth=32 in the signature of _win32_set, and "if not depth: depth = 32"
Win32DefaultDepth == 32
\* a depth other than the default that a caller of set may pass
OtherDepth == 16

\* sys.platform values: one with a backend, the two stubbed ones (linux in
\* both of its spellings), and one the dispatch does not know
Platforms == {"win32", "linux", "linux2", "darwin", "freebsd"}

IsWin32(p) == p = "win32"
StartsWithLinux(p) == p \in {"linux", "linux2"}
StartsWithDarwin(p) == p \in {"darwin"}

Widths == 1..MaxWidth
Heights == 1..MaxHeight
Pairs == Widths \X Heights

\* what EnumDisplaySettings(None, i) answers: a mode, or pywintypes.error
EnumError == <<>>
EnumEntries == Pairs \cup {EnumError}

RECURSIVE SeqsUpTo(_, _)
SeqsUpTo(S, n) ==
    IF n = 0 THEN {<<>>}
    ELSE LET shorter == SeqsUpTo(S, n - 1)
         IN shorter \cup {Append(s, x) : s \in {t \in shorter : Len(t) = n - 1}, x \in S}

\* what GetSystemMetrics(0), GetSystemMetrics(1) answer: a mode, or 0, 0 when
\* the call fails
MetricsFailed == <<0, 0>>
Metrics == Pairs \cup {MetricsFailed}

\* what ChangeDisplaySettings returns: DISP_CHANGE_SUCCESSFUL,
\* DISP_CHANGE_FAILED, DISP_CHANGE_BADMODE
DISP_CHANGE_SUCCESSFUL == 0
DISP_CHANGE_FAILED == 0 - 1
DISP_CHANGE_BADMODE == 0 - 2
DispChange == {DISP_CHANGE_SUCCESSFUL, DISP_CHANGE_FAILED, DISP_CHANGE_BADMODE}

\* Python truth of an optional integer: None and 0 are false
Truthy(x) == x # None /\ x # 0

(* ---------------------------------------------------------------------- *)
(* Results of a Python call: a returned value or a raised exception        *)
(* ---------------------------------------------------------------------- *)

Result(kind, exc, tag, pair, set, seq) ==
    [kind |-> kind, exc |-> exc, tag |-> tag, pair |-> pair, set |-> set, seq |-> seq]
ReturnNone == Result("return", "", "None", <<0, 0>>, {}, <<>>)
ReturnPair(x) == Result("return", "", "pair", x, {}, <<>>)
ReturnSet(s) == Result("return", "", "set", <<0, 0>>, s, <<>>)
ReturnSeq(s) == Result("return", "", "seq", <<0, 0>>, {}, s)
Raise(e) == Result("raise", e, "None", <<0, 0>>, {}, <<>>)

\* one printed line
Line(t, w, h, star) == [t |-> t, w |-> w, h |-> h, star |-> star]

(* ---------------------------------------------------------------------- *)
(* The native display subsystem                                            *)
(* ---------------------------------------------------------------------- *)

VARIABLES
    platform,   \* sys.platform
    enum,       \* the entries the native enumeration answers, index 0 first
    mode,       \* the active display mode, as GetSystemMetrics reports it
    op,         \* the operation that ran last
    args,       \* its arguments
    preMode,    \* the active display mode when it started
    res,        \* what it returned or raised
    out,        \* the lines it printed
    calls       \* the ChangeDisplaySettings calls it made, in order

vars == <<platform, enum, mode, op, args, preMode, res, out, calls>>

\* win32api.EnumDisplaySettings(None, i): the i-th entry, an error past the end
EnumDisplaySettings(e, i) == IF i < Len(e) THEN e[i + 1] ELSE EnumError

\* one ChangeDisplaySettings call: the DEVMODE fields passed (reset = TRUE for
\* ChangeDisplaySettings(None, 0)) and the status the subsystem returns
NativeCall(reset, w, h, d, status) ==
    [reset |-> reset, width |-> w, height |-> h, depth |-> d, status |-> status]

(* ---------------------------------------------------------------------- *)
(* Backends                                                                *)
(* ---------------------------------------------------------------------- *)

\* the while loop of _win32_get_modes from index i with modes collected
RECURSIVE EnumLoopSkipErrors(_, _, _)
EnumLoopSkipErrors(e, i, modes) ==
    IF i >= Len(e) THEN modes
    ELSE IF EnumDisplaySettings(e, i) = EnumError THEN EnumLoopSkipErrors(e, i + 1, modes)
    ELSE EnumLoopSkipErrors(e, i + 1, modes \cup {EnumDisplaySettings(e, i)})

RECURSIVE EnumLoop(_, _, _)
EnumLoop(e, i, modes) ==
    LET m == EnumDisplaySettings(e, i)
    IN IF m = EnumError THEN modes
       ELSE EnumLoop(e, i + 1, modes \cup {<<m[1], m[2]>>})

Win32GetModes(e) == ReturnSet(EnumLoop(e, 0, {}))

Win32Get(m) == ReturnPair(<<m[1], m[2]>>)

\* the ChangeDisplaySettings calls _win32_set makes, in order, before the
\* subsystem has answered them
Win32SetCallsSwapped(e, width, height, depth) ==
    LET d == IF depth = None \/ depth = 0 THEN Win32DefaultDepth ELSE depth
    IN IF ~Truthy(width) \/ ~Truthy(height)
       THEN <<NativeCall(TRUE, None, None, None, DISP_CHANGE_SUCCESSFUL)>>
       ELSE IF EnumDisplaySettings(e, 0) = EnumError
            THEN <<>>
            ELSE <<NativeCall(FALSE, height, width, d, DISP_CHANGE_SUCCESSFUL)>>

Win32SetCalls(e, width, height, depth) ==
    LET d == IF depth = None \/ depth = 0 THEN Win32DefaultDepth ELSE depth
    IN IF ~Truthy(width) \/ ~Truthy(height)
       THEN <<NativeCall(TRUE, None, None, None, DISP_CHANGE_SUCCESSFUL)>>
       ELSE IF EnumDisplaySettings(e, 0) = EnumError
            THEN <<>>
            ELSE <<NativeCall(FALSE, width, height, d, DISP_CHANGE_SUCCESSFUL)>>

\* _win32_set: returns None, or raises when EnumDisplaySettings() does; the
\* status ChangeDisplaySettings returns is dropped
Win32Set(e, width, height, depth) ==
    IF ~Truthy(width) \/ ~Truthy(height) THEN ReturnNone
    ELSE IF EnumDisplaySettings(e, 0) = EnumError THEN Raise("pywintypes.error")
    ELSE ReturnNone

LinuxSet == Raise("NotImplementedError")
LinuxGet == Raise("NotImplementedError")
LinuxGetModes == Raise("NotImplementedError")
OsxSet == Raise("NotImplementedError")
OsxGet == Raise("NotImplementedError")
OsxGetModes == Raise("NotImplementedError")

(* ---------------------------------------------------------------------- *)
(* DisplayResUtil                                                          *)
(* ---------------------------------------------------------------------- *)

\* get: dispatch on sys.platform; no branch taken returns None
Get(p, m) ==
    IF IsWin32(p) THEN Win32Get(m)
    ELSE IF StartsWithLinux(p) THEN LinuxGet
    ELSE IF StartsWithDarwin(p) THEN OsxGet
    ELSE ReturnNone

\* get_modes: dispatch on sys.platform; no branch taken returns None
GetModes(p, e) ==
    IF IsWin32(p) THEN Win32GetModes(e)
    ELSE IF StartsWithLinux(p) THEN LinuxGetModes
    ELSE IF StartsWithDarwin(p) THEN OsxGetModes
    ELSE ReturnNone

\* key=lambda x: x[0] * x[1]
Area(x) == x[1] * x[2]

\* the orders in which iterating a Python set may yield its elements
Orders(S) ==
    {s \in [1..Cardinality(S) -> S] : \A i, j \in 1..Cardinality(S) : s[i] = s[j] => i = j}

\* sorted(..., reverse=True) is stable: x goes behind every element whose key
\* is at least its own
RECURSIVE InsertAscending(_, _)
InsertAscending(s, x) ==
    IF s = <<>> THEN <<x>>
    ELSE IF Area(Head(s)) <= Area(x) THEN <<Head(s)>> \o InsertAscending(Tail(s), x)
    ELSE <<x>> \o s

RECURSIVE InsertDescending(_, _)
InsertDescending(s, x) ==
    IF s = <<>> THEN <<x>>
    ELSE IF Area(Head(s)) >= Area(x) THEN <<Head(s)>> \o InsertDescending(Tail(s), x)
    ELSE <<x>> \o s

RECURSIVE Sorted(_)
Sorted(s) ==
    IF s = <<>> THEN <<>>
    ELSE InsertDescending(Sorted(SubSeq(s, 1, Len(s) - 1)), s[Len(s)])

\* get_modes_sorted, the set being iterated in the order given
GetModesSorted(p, e, order) ==
    LET modes == GetModes(p, e)
    IN IF modes.kind = "raise" THEN modes
       ELSE IF modes.tag # "set" THEN Raise("TypeError")
       ELSE ReturnSeq(Sorted(order))

\* the loop that prints one line per mode, the current one with " *"
ModeLines(modes, current_mode) ==
    [i \in 1..Len(modes) |->
        Line("mode", modes[i][1], modes[i][2],
             current_mode.tag = "pair" /\ modes[i] = current_mode.pair)]

\* what one run of an operation leaves: its result, its output, its native calls
Run(r, o, c) == [res |-> r, out |-> o, calls |-> c]

\* current_mode == (width, height)
AlreadySetSwapped(current_mode, width, height) ==
    current_mode.tag = "pair" /\ current_mode.pair = <<height, width>>

AlreadySet(current_mode, width, height) ==
    current_mode.tag = "pair" /\ current_mode.pair = <<width, height>>

\* (width, height) not in modes
NotAvailableNever(modes, width, height) == FALSE

NotAvailable(modes, width, height) == <<width, height>> \notin modes

\* set
SetRun(p, e, m, width, height, depth, order) ==
    LET current_mode == Get(p, m)
    IN IF current_mode.kind = "raise" THEN Run(current_mode, <<>>, <<>>)
       ELSE IF AlreadySet(current_mode, width, height)
       THEN Run(ReturnNone, <<Line("already", width, height, FALSE)>>, <<>>)
       ELSE
       LET modes == GetModes(p, e)
       IN IF modes.kind = "raise" THEN Run(modes, <<>>, <<>>)
          ELSE IF modes.tag # "set" THEN Run(Raise("TypeError"), <<>>, <<>>)
          ELSE IF NotAvailable(modes.set, width, height)
          THEN LET head == <<Line("unavailable", width, height, FALSE),
                             Line("header", 0, 0, FALSE)>>
                   sorted == GetModesSorted(p, e, order)
               IN IF sorted.kind = "raise" THEN Run(sorted, head, <<>>)
                  ELSE Run(ReturnNone, head \o ModeLines(sorted.seq, current_mode), <<>>)
          ELSE
          LET msg == IF Truthy(width) /\ Truthy(height)
                     THEN <<Line("setting", width, height, FALSE)>>
                     ELSE <<Line("defaults", 0, 0, FALSE)>>
          IN IF IsWin32(p)
             THEN Run(Win32Set(e, width, height, depth), msg,
                      Win32SetCalls(e, width, height, depth))
             ELSE IF StartsWithLinux(p) THEN Run(LinuxSet, msg, <<>>)
             ELSE IF StartsWithDarwin(p) THEN Run(OsxSet, msg, <<>>)
             ELSE Run(ReturnNone, msg, <<>>)

(* ---------------------------------------------------------------------- *)
(* The command line entry point                                            *)
(* ---------------------------------------------------------------------- *)

\* --current
CurrentRunResets(p, m) ==
    LET current == Get(p, m)
    IN IF current.kind = "raise" THEN Run(current, <<>>, <<>>)
       ELSE IF current.tag # "pair" THEN Run(Raise("TypeError"), <<>>, <<>>)
       ELSE Run(ReturnNone, <<Line("current", current.pair[1], current.pair[2], FALSE)>>,
                <<NativeCall(TRUE, None, None, None, DISP_CHANGE_SUCCESSFUL)>>)

CurrentRun(p, m) ==
    LET current == Get(p, m)
    IN IF current.kind = "raise" THEN Run(current, <<>>, <<>>)
       ELSE IF current.tag # "pair" THEN Run(Raise("TypeError"), <<>>, <<>>)
       ELSE Run(ReturnNone, <<Line("current", current.pair[1], current.pair[2], FALSE)>>, <<>>)

\* --list
ListRun(p, e, m, order) ==
    LET head == <<Line("header", 0, 0, FALSE)>>
        modes == GetModesSorted(p, e, order)
        current_mode == Get(p, m)
    IN IF modes.kind = "raise" THEN Run(modes, head, <<>>)
       ELSE IF current_mode.kind = "raise" THEN Run(current_mode, head, <<>>)
       ELSE Run(ReturnNone, head \o ModeLines(modes.seq, current_mode), <<>>)

\* no flag: parser.print_help()
HelpRun == Run(ReturnNone, <<Line("help", 0, 0, FALSE)>>, <<>>)

(* ---------------------------------------------------------------------- *)
(* The state machine                                                       *)
(* ---------------------------------------------------------------------- *)

Args(w, h, d) == [width |-> w, height |-> h, depth |-> d]
NoArgs == Args(None, None, None)

\* the widths and heights a caller may pass: omitted, 0, or a dimension
OptWidths == {None, 0} \cup Widths
OptHeights == {None, 0} \cup Heights
\* the integers --set may carry
CliWidths == {0} \cup Widths
CliHeights == {0} \cup Heights
\* the depths a caller may pass: omitted, 0, or another depth
OptDepths == {None, 0, OtherDepth}

Init ==
    /\ platform \in Platforms
    /\ IF IsWin32(platform)
       THEN /\ enum \in SeqsUpTo(EnumEntries, MaxEnum)
            /\ mode \in Metrics
       ELSE /\ enum = <<>>
            /\ mode = MetricsFailed
    /\ op = "idle"
    /\ args = NoArgs
    /\ preMode = mode
    /\ res = ReturnNone
    /\ out = <<>>
    /\ calls = <<>>

\* the statuses the subsystem may return to the calls c
Answers(c) == [1..Len(c) -> DispChange]

\* the calls c with the statuses st the subsystem returned
Answered(c, st) == [i \in 1..Len(c) |-> [c[i] EXCEPT !.status = st[i]]]

\* the display mode once the calls c of one run have been answered: a
\* successful call switches to the mode it asked for, a successful reset to
\* the default mode the system keeps, a refused call changes nothing
Settle(c) ==
    IF c = <<>> THEN mode' = mode
    ELSE IF c[Len(c)].status # DISP_CHANGE_SUCCESSFUL THEN mode' = mode
    ELSE IF c[Len(c)].reset THEN mode' \in Metrics
    ELSE mode' = <<c[Len(c)].width, c[Len(c)].height>>

\* one operation runs at a time, from start to end: single-threaded,
\* synchronous calls
Finish(name, a, r) ==
    /\ op = "idle"
    /\ op' = name
    /\ args' = a
    /\ preMode' = mode
    /\ res' = r.res
    /\ out' = r.out
    /\ \E st \in Answers(r.calls) :
        /\ calls' = Answered(r.calls, st)
        /\ Settle(Answered(r.calls, st))
    /\ UNCHANGED <<platform, enum>>

\* the orders in which the set that _win32_get_modes builds may be iterated
IterationOrders == Orders(EnumLoop(enum, 0, {}))

\* DisplayResUtil.set(width, height, depth), depth None when it is omitted
ApiSet ==
    \E order \in IterationOrders :
      \E width \in OptWidths, height \in OptHeights, d \in OptDepths :
        Finish("set", Args(width, height, d),
               SetRun(platform, enum, mode, width, height,
                      IF d = None THEN DefaultDepth ELSE d, order))

\* DisplayResUtil.get()
ApiGet ==
    Finish("get", NoArgs, Run(Get(platform, mode), <<>>, <<>>))

\* DisplayResUtil.get_modes()
ApiGetModes ==
    Finish("get_modes", NoArgs, Run(GetModes(platform, enum), <<>>, <<>>))

\* DisplayResUtil.get_modes_sorted()
ApiGetModesSorted ==
    \E order \in IterationOrders :
        Finish("get_modes_sorted", NoArgs,
               Run(GetModesSorted(platform, enum, order), <<>>, <<>>))

\* --set N M: DisplayResUtil.set(*args.dimensions)
CliSet ==
    \E order \in IterationOrders :
      \E width \in CliWidths, height \in CliHeights :
        Finish("cli_set", Args(width, height, None),
               SetRun(platform, enum, mode, width, height, DefaultDepth, order))

\* --current
CliCurrent ==
    Finish("cli_current", NoArgs, CurrentRun(platform, mode))

\* --list
CliList ==
    \E order \in IterationOrders :
        Finish("cli_list", NoArgs, ListRun(platform, enum, mode, order))

\* no flag
CliHelp ==
    Finish("cli_help", NoArgs, HelpRun)

\* control is back with the caller, or the process has exited: what the
\* finished operation returned and printed is gone, the display mode stays
Return ==
    /\ op # "idle"
    /\ op' = "idle"
    /\ args' = NoArgs
    /\ preMode' = mode
    /\ res' = ReturnNone
    /\ out' = <<>>
    /\ calls' = <<>>
    /\ UNCHANGED <<platform, enum, mode>>

Next ==
    \/ ApiSet
    \/ ApiGet
    \/ ApiGetModes
    \/ ApiGetModesSorted
    \/ CliSet
    \/ CliCurrent
    \/ CliList
    \/ CliHelp
    \/ Return

Spec == Init /\ [][Next]_vars

(* ---------------------------------------------------------------------- *)
(* Properties                                                              *)
(* ---------------------------------------------------------------------- *)

SetOps == {"set", "cli_set"}
CliOps == {"cli_set", "cli_current", "cli_list", "cli_help"}
ReadOps == {"get", "get_modes", "get_modes_sorted", "cli_current", "cli_list", "cli_help"}

\* the pair the finished call was given
Requested == <<args.width, args.height>>

\* get_current() and list_modes() as the finished call found them
CurrentAtCall == Get(platform, preMode)
ModesAtCall == GetModes(platform, enum)
HasCurrent == CurrentAtCall.kind = "return" /\ CurrentAtCall.tag = "pair"
HasModes == ModesAtCall.kind = "return" /\ ModesAtCall.tag = "set"
RequestedIsCurrent == HasCurrent /\ CurrentAtCall.pair = Requested
RequestedIsListed == HasModes /\ Requested \in ModesAtCall.set

\* the pairs the native enumeration answers before its first error
Enumerated ==
    {enum[i] : i \in {j \in 1..Len(enum) : \A k \in 1..j : enum[k] # EnumError}}

\* the output of the guided rejection: the requested pair reported as
\* unavailable, a header, then every listed mode once, by descending area,
\* the current mode and no other marked
GuidedRejection ==
    /\ res = ReturnNone
    /\ Len(out) = 2 + Cardinality(ModesAtCall.set)
    /\ out[1] = Line("unavailable", args.width, args.height, FALSE)
    /\ out[2] = Line("header", 0, 0, FALSE)
    /\ \A i \in 3..Len(out) : out[i].t = "mode"
    /\ {<<out[i].w, out[i].h>> : i \in 3..Len(out)} = ModesAtCall.set
    /\ \A i \in 3..(Len(out) - 1) : out[i].w * out[i].h >= out[i + 1].w * out[i + 1].h
    /\ \A i \in 3..Len(out) : out[i].star <=> (<<out[i].w, out[i].h>> = CurrentAtCall.pair)

\* C1 as stated: set(w, h) with (w, h) not in list_modes() never invokes the
\* native mode-change call and ends in the guided rejection
C1_Original ==
    (op \in SetOps /\ HasModes /\ ~RequestedIsListed)
        => (calls = <<>> /\ mode = preMode /\ GuidedRejection)

\* C1 amended: set(w, h) with (w, h) not in list_modes() and different from
\* the current mode never invokes the native mode-change call and ends in the
\* guided rejection: the pair reported unavailable, every mode listed once by
\* descending area, the current mode and only it marked
C1_GuidedRejection ==
    (op \in SetOps /\ HasModes /\ ~RequestedIsListed /\ ~RequestedIsCurrent)
        => (calls = <<>> /\ mode = preMode /\ GuidedRejection)

C1_Witness ==
    /\ op \in SetOps /\ HasModes /\ ~RequestedIsListed /\ ~RequestedIsCurrent
    /\ Truthy(args.width) /\ Truthy(args.height)
    /\ Cardinality(ModesAtCall.set) >= 2
    /\ Len(out) >= 4
    /\ \E i \in 3..Len(out) : out[i].star
    /\ calls = <<>>

\* C2: set(w, h) with (w, h) equal to get_current() reports "already set" and
\* returns without a native mode-change call, whether or not (w, h) is listed
C2_AlreadySet ==
    (op \in SetOps /\ RequestedIsCurrent)
        => /\ calls = <<>>
           /\ mode = preMode
           /\ res = ReturnNone
           /\ out = <<Line("already", args.width, args.height, FALSE)>>

C2_Witness ==
    /\ op \in SetOps /\ RequestedIsCurrent /\ HasModes /\ ~RequestedIsListed
    /\ ModesAtCall.set # {}
    /\ out = <<Line("already", args.width, args.height, FALSE)>>
    /\ calls = <<>>

\* C3: set() with width and height omitted reaches, on a platform with a
\* backend, the native call that restores the default mode
C3_ResetToDefault ==
    (op = "set" /\ args.width = None /\ args.height = None /\ IsWin32(platform))
        => (Len(calls) = 1 /\ calls[1].reset)

\* C4: set(w, h) with no depth given, (w, h) listed and not the current mode,
\* invokes the native mode-change call exactly once, with width w, height h
\* and depth 32
C4_AppliesOnce ==
    (op \in SetOps /\ args.depth = None /\ RequestedIsListed /\ ~RequestedIsCurrent)
        => /\ Len(calls) = 1
           /\ ~calls[1].reset
           /\ calls[1].width = args.width
           /\ calls[1].height = args.height
           /\ calls[1].depth = 32

C4_Witness ==
    /\ op \in SetOps /\ args.depth = None /\ RequestedIsListed /\ ~RequestedIsCurrent
    /\ args.width # args.height
    /\ Len(calls) = 1
    /\ calls[1].status = DISP_CHANGE_BADMODE
    /\ calls[1].depth = 32

\* C5: on a host without a backend, get_current, list_modes and set each fail
\* with the unsupported-platform error; none returns, and set prints nothing
C5_UnsupportedPlatform ==
    (~IsWin32(platform) /\ op \in {"get", "get_modes", "set"})
        => (res.kind = "raise" /\ res.exc = "NotImplementedError" /\ out = <<>>)

\* C6: when the native mode-change call refuses the mode, set fails with an
\* apply error; it never completes normally after a refused call
C6_ApplyError ==
    (op \in SetOps /\ \E i \in 1..Len(calls) : calls[i].status # DISP_CHANGE_SUCCESSFUL)
        => res.kind = "raise"

\* C7: list_modes_sorted() is a permutation of list_modes(), each mode once,
\* every mode's area at least that of the mode after it
C7_SortedPermutation ==
    (op = "get_modes_sorted" /\ HasModes)
        => /\ res.kind = "return" /\ res.tag = "seq"
           /\ Len(res.seq) = Cardinality(ModesAtCall.set)
           /\ {res.seq[i] : i \in 1..Len(res.seq)} = ModesAtCall.set
           /\ \A i \in 1..(Len(res.seq) - 1) :
                res.seq[i][1] * res.seq[i][2] >= res.seq[i + 1][1] * res.seq[i + 1][2]

C7_Witness ==
    /\ op = "get_modes_sorted" /\ HasModes
    /\ res.tag = "seq" /\ Len(res.seq) = 3
    /\ res.seq[1][1] * res.seq[1][2] > res.seq[2][1] * res.seq[2][2]
    /\ res.seq[2][1] * res.seq[2][2] = res.seq[3][1] * res.seq[3][2]

\* C8: no error raised during a command line invocation leaves the entry
\* point uncaught
C8_ErrorsCaught ==
    op \in CliOps => res.kind # "raise"

\* C9: list_modes() holds exactly the pairs the native enumeration answered
\* before its first error, each once however often it was answered
C9_Deduplicated ==
    (op = "get_modes" /\ IsWin32(platform))
        => (res.kind = "return" /\ res.tag = "set" /\ res.set = Enumerated)

C9_Witness ==
    /\ op = "get_modes" /\ IsWin32(platform)
    /\ Len(enum) = 3 /\ enum[1] # EnumError /\ enum[2] = enum[1]
    /\ enum[3] # EnumError /\ enum[3] # enum[1]
    /\ res.tag = "set" /\ Cardinality(res.set) = 2

\* C10: get_current, list_modes, list_modes_sorted, --current, --list and the
\* no-flag invocation make no native mode-change call and leave the display
\* mode as it was; a native mode-change call is made only by set, and only
\* for a listed pair that is not the current mode
C10_ReadOnly ==
    /\ op \in ReadOps \cup {"idle"} => (calls = <<>> /\ mode = preMode)
    /\ calls # <<>> => (op \in SetOps /\ RequestedIsListed /\ ~RequestedIsCurrent)
    /\ mode # preMode => calls # <<>>

C10_Witness ==
    /\ op = "cli_list" /\ IsWin32(platform)
    /\ res = ReturnNone /\ Len(out) >= 3
    /\ \E i \in 2..Len(out) : out[i].star
    /\ calls = <<>> /\ mode = preMode

====
